---- MODULE Spec2Model ----
(***************************************************************************)
(* hwgraph: the "graph" sub-command of src/graph/hwgraph.py.               *)
(* render_traces runs graph_environment, compare_traces and plot_graphs    *)
(* over args.traces; every graph request, notice and directory creation    *)
(* is recorded, in program order, in the sequence "log".                   *)
(***************************************************************************)
EXTENDS Integers, Sequences, FiniteSets, TLC

VARIABLES traces, no_env, same_enclosure, user_same_enclosure, pc, log,
          rendered_graphs, fatal_msg

vars == <<traces, no_env, same_enclosure, user_same_enclosure, pc, log,
          rendered_graphs, fatal_msg>>

-----------------------------------------------------------------------------
(* Bounds of the explored inputs.                                          *)
MaxTraces == 3
MaxEnvTraces == 2
MaxBenches == 4
MaxFans == 2

Names == {"sysA", "sysB", "sysC"}
ConfigKeys == {"job1", "job2"}
JobNames == {"A", "B", "C"}
Enclosures == {"", "ENC1", "ENC2"}
Chassis == {"CH1", "CH2"}
Metrics == {"chassis", "enclosure"}

-----------------------------------------------------------------------------
(* Names imported from graph.graph.                                        *)
THERMAL == "thermal"
POWER == "power"
None == "none"

(* One entry of the log. *)
Ev(kind, t, b, key, axis, n) ==
  [kind |-> kind, trace |-> t, bench |-> b, key |-> key, axis |-> axis, n |-> n]

(* What a function hands back: what it emitted and its return value. *)
Result(out, ret) == [out |-> out, ret |-> ret]

Then(r1, r2) == [out |-> r1.out \o r2.out, ret |-> r1.ret + r2.ret]

Nothing == Result(<<>>, 0)

print(key, t, b) == Ev("print", t, b, key, None, 0)

(* Every graph function of the plotting backend counts one per request. *)
GraphReturn == 1

generic_graph(t, bench, item, second_axis) ==
  Result(<<Ev("generic_graph", t, bench, item, second_axis, 0)>>, GraphReturn)

yerr_graph(t, bench, item, fan) ==
  Result(<<Ev("yerr_graph", t, bench, item, None, fan)>>, GraphReturn)

graph_enclosure(bench_name) ==
  Result(<<Ev("graph_enclosure", 0, bench_name, "enclosure", None, 0)>>, GraphReturn)

scaling_graph(job) ==
  Result(<<Ev("scaling_graph", 0, 0, job, None, 0)>>, GraphReturn)

individual_graph(job) ==
  Result(<<Ev("individual_graph", 0, 0, job, None, 0)>>, GraphReturn)

(* fatal() ends the process with the message it is given. *)
NoFatal == [kind |-> "", filename |-> 0, name |-> ""]

fatal(kind, filename, name) == [kind |-> kind, filename |-> filename, name |-> name]

-----------------------------------------------------------------------------
(* Trace accessors. *)
bench_list(trace) == DOMAIN trace.benches

RECURSIVE sorted(_)
sorted(S) ==
  IF S = {} THEN <<>>
  ELSE LET m == CHOOSE x \in S : \A y \in S : x <= y
       IN <<m>> \o sorted(S \ {m})

get_components(trace, bench_name) == trace.benches[bench_name].fans

job_name(trace, bench_name) == trace.benches[bench_name].job

InSeq(x, s) == \E i \in 1..Len(s) : s[i] = x

-----------------------------------------------------------------------------
(* compare_traces *)
config_missing_reversed(ref, trace) == (trace.config \ ref.config) # {}

config_missing(ref, trace) == (ref.config \ trace.config) # {}

name_in_use_never(name, names) == FALSE

name_in_use(name, names) == InSeq(name, names)

RECURSIVE compare_loop(_, _, _)
compare_loop(ts, i, names) ==
  IF i > Len(ts) THEN NoFatal
  ELSE IF config_missing(ts[1], ts[i])
       THEN fatal("config", ts[i].filename, "")
  ELSE IF name_in_use(ts[i].name, names)
       THEN fatal("duplicate", ts[i].filename, ts[i].name)
  ELSE compare_loop(ts, i + 1, Append(names, ts[i].name))

compare_traces(ts) == compare_loop(ts, 1, <<>>)

-----------------------------------------------------------------------------
(* graph_fans, graph_cpu, graph_thermal *)
RECURSIVE yerr_loop(_, _, _, _)
yerr_loop(t, bench_name, fan, fans) ==
  IF fan > fans THEN Nothing
  ELSE Then(yerr_graph(t, bench_name, "fan", fan),
            yerr_loop(t, bench_name, fan + 1, fans))

fans_body(ts, t, bench_name) ==
  LET fans == get_components(ts[t], bench_name)
  IN  IF fans = 0
      THEN Result(<<print("no fans", t, bench_name)>>, 0)
      ELSE Then(Then(generic_graph(t, bench_name, "fan", THERMAL),
                     generic_graph(t, bench_name, "fan", POWER)),
                yerr_loop(t, bench_name, 1, fans))

fans_body_one_axis(ts, t, bench_name) ==
  LET fans == get_components(ts[t], bench_name)
  IN  IF fans = 0
      THEN Result(<<print("no fans", t, bench_name)>>, 0)
      ELSE Then(generic_graph(t, bench_name, "fan", THERMAL),
                yerr_loop(t, bench_name, 1, fans))

graph_fans_one_axis(ts, t, bench_name) ==
  LET r == fans_body_one_axis(ts, t, bench_name)
  IN  Result(<<Ev("call", t, bench_name, "graph_fans", None, 0)>> \o r.out
               \o <<Ev("return", t, bench_name, "graph_fans", None, r.ret)>>,
             r.ret)

(* The call and its return value are recorded around what it emits. *)
graph_fans(ts, t, bench_name) ==
  LET r == fans_body(ts, t, bench_name)
  IN  Result(<<Ev("call", t, bench_name, "graph_fans", None, 0)>> \o r.out
               \o <<Ev("return", t, bench_name, "graph_fans", None, r.ret)>>,
             r.ret)

cpu_graphs == <<"watt_core", "package", "mhz_core">>

cpu_axes == <<None, THERMAL, POWER>>

RECURSIVE cpu_loop(_, _, _, _)
cpu_loop(t, bench_name, g, a) ==
  IF g > Len(cpu_graphs) THEN Nothing
  ELSE IF a > Len(cpu_axes) THEN cpu_loop(t, bench_name, g + 1, 1)
  ELSE Then(generic_graph(t, bench_name, cpu_graphs[g], cpu_axes[a]),
            cpu_loop(t, bench_name, g, a + 1))

graph_cpu(ts, t, bench_name) == cpu_loop(t, bench_name, 1, 1)

graph_thermal(ts, t, bench_name) == generic_graph(t, bench_name, "temp", None)

-----------------------------------------------------------------------------
(* graph_environment *)
env_disabled_inverted(flag) == flag

env_disabled(flag) == ~flag

all_same_enclosure(ts, enclosure) ==
  Cardinality({i \in 1..Len(ts) : ts[i].enclosure = enclosure}) = Len(ts)

(* Auto-detection: the notice emitted and the new args.same_enclosure. *)
detect_enclosure_any(ts, same) ==
  LET enclosure == ts[1].enclosure
  IN  IF enclosure # ""
         /\ Cardinality({i \in 1..Len(ts) : ts[i].enclosure = enclosure}) >= 1
      THEN [out |-> <<print("same enclosure", 0, 0)>>, same |-> TRUE]
      ELSE [out |-> <<>>, same |-> same]

detect_enclosure(ts, same) ==
  LET enclosure == ts[1].enclosure
  IN  IF enclosure # "" /\ all_same_enclosure(ts, enclosure)
      THEN [out |-> <<print("same enclosure", 0, 0)>>, same |-> TRUE]
      ELSE [out |-> <<>>, same |-> same]

NoError == [kind |-> "", metric |-> "", filename |-> 0]

first_missing_metric(trace) ==
  IF "chassis" \notin trace.metrics THEN "chassis" ELSE "enclosure"

RECURSIVE metrics_loop(_, _)
metrics_loop(ts, i) ==
  IF i > Len(ts) THEN NoError
  ELSE IF ~(Metrics \subseteq ts[i].metrics)
       THEN [kind |-> "missing", metric |-> first_missing_metric(ts[i]),
             filename |-> ts[i].filename]
  ELSE metrics_loop(ts, i + 1)

valid_traces_distinct(ts) ==
  LET chassis == [i \in 1..Len(ts) |-> ts[i].chassis]
  IN  IF Cardinality({chassis[i] : i \in 1..Len(ts)}) = Len(ts)
      THEN metrics_loop(ts, 1)
      ELSE [kind |-> "not unique", metric |-> "", filename |-> 0]

valid_traces(ts) ==
  LET chassis == [i \in 1..Len(ts) |-> ts[i].chassis]
  IN  IF Len(chassis) = Len(ts)
      THEN metrics_loop(ts, 1)
      ELSE [kind |-> "not unique", metric |-> "", filename |-> 0]

RECURSIVE enclosure_loop(_)
enclosure_loop(names) ==
  IF names = <<>> THEN Nothing
  ELSE Then(graph_enclosure(Head(names)), enclosure_loop(Tail(names)))

graph_enclosures_first_only(ts) ==
  enclosure_loop(<<Head(sorted(bench_list(ts[1])))>>)

graph_enclosures(ts) == enclosure_loop(sorted(bench_list(ts[1])))

enclosure_gate(ts, same) ==
  IF same
  THEN LET error_message == valid_traces(ts)
       IN  IF error_message.kind = ""
           THEN graph_enclosures(ts)
           ELSE Result(<<Ev("print", 0, 0, error_message.kind,
                            error_message.metric, error_message.filename)>>, 0)
  ELSE Nothing

RECURSIVE bench_loop(_, _, _)
bench_loop(ts, t, names) ==
  IF names = <<>> THEN Nothing
  ELSE Then(Then(Then(graph_fans(ts, t, Head(names)),
                      graph_cpu(ts, t, Head(names))),
                 graph_thermal(ts, t, Head(names))),
            bench_loop(ts, t, Tail(names)))

RECURSIVE trace_loop(_, _)
trace_loop(ts, t) ==
  IF t > Len(ts) THEN Nothing
  ELSE Then(Then(Result(<<Ev("mkdir", t, 0, ts[t].name, None, 0),
                          Ev("print", t, 0, "rendering", None,
                             Cardinality(bench_list(ts[t])))>>, 0),
                 bench_loop(ts, t, sorted(bench_list(ts[t])))),
            trace_loop(ts, t + 1))

graph_environment(ts, flag, same) ==
  IF env_disabled(flag)
  THEN [out |-> <<print("disabled by user", 0, 0)>>, ret |-> 0, same |-> same]
  ELSE LET d == detect_enclosure(ts, same)
           r == Then(enclosure_gate(ts, d.same), trace_loop(ts, 1))
       IN  [out |-> d.out \o r.out, ret |-> r.ret, same |-> d.same]

-----------------------------------------------------------------------------
(* plot_graphs *)
RECURSIVE jobs_all(_, _, _)
jobs_all(trace, names, jobs) ==
  IF names = <<>> THEN jobs
  ELSE jobs_all(trace, Tail(names), Append(jobs, job_name(trace, Head(names))))

RECURSIVE jobs_loop(_, _, _)
jobs_loop(trace, names, jobs) ==
  IF names = <<>> THEN jobs
  ELSE LET j == job_name(trace, Head(names))
       IN  jobs_loop(trace, Tail(names),
                     IF ~InSeq(j, jobs) THEN Append(jobs, j) ELSE jobs)

job_list_no_dedup(ts) == jobs_all(ts[1], sorted(bench_list(ts[1])), <<>>)

job_list(ts) == jobs_loop(ts[1], sorted(bench_list(ts[1])), <<>>)

RECURSIVE scaling_loop(_)
scaling_loop(jobs) ==
  IF jobs = <<>> THEN Nothing
  ELSE Then(scaling_graph(Head(jobs)), scaling_loop(Tail(jobs)))

RECURSIVE individual_loop(_)
individual_loop(jobs) ==
  IF jobs = <<>> THEN Nothing
  ELSE Then(individual_graph(Head(jobs)), individual_loop(Tail(jobs)))

plot_graphs(ts) ==
  LET jobs == job_list(ts)
  IN  Then(Then(Result(<<Ev("print", 0, 0, "Scaling", None, Len(jobs))>>, 0),
                scaling_loop(jobs)),
           Then(Result(<<Ev("print", 0, 0, "Individual", None, Len(jobs))>>, 0),
                individual_loop(jobs)))

-----------------------------------------------------------------------------
(* Inputs: the Comparison Set and the command-line flags. *)
Bench(job, fans) == [job |-> job, fans |-> fans]

OneBench == [b \in {1} |-> Bench("A", 1)]

Trace(filename, name, config, enclosure, chassis, metrics, benches) ==
  [filename |-> filename, name |-> name, config |-> config,
   enclosure |-> enclosure, chassis |-> chassis, metrics |-> metrics,
   benches |-> benches]

NameOf(i) == IF i = 1 THEN "sysA" ELSE IF i = 2 THEN "sysB" ELSE "sysC"

(* Names and configurations vary; the hardware context is the same. *)
ValidatorSet ==
  \E n \in 1..MaxTraces :
    \E nm \in [2..n -> Names], cf \in [2..n -> SUBSET ConfigKeys],
       rc \in {ConfigKeys, {"job1"}} :
      traces = [i \in 1..n |->
                  Trace(i, IF i = 1 THEN "sysA" ELSE nm[i],
                        IF i = 1 THEN rc ELSE cf[i],
                        "", "CH1", Metrics, OneBench)]

(* Enclosure and chassis vary, one trace may lack a metric, and the last   *)
(* trace may reuse a name.                                                *)
EnvSet ==
  \E n \in 1..MaxEnvTraces :
    \E e1 \in Enclosures \ {"ENC2"}, en \in [2..n -> Enclosures],
       ch \in [2..n -> Chassis], w \in 0..n, m \in Metrics,
       bs \in {{1}, {2, 3}}, dup \in BOOLEAN :
      /\ (w = 0 => m = "chassis")
      /\ (n = 1 => ~dup)
      /\ traces = [i \in 1..n |->
                     Trace(i, IF i = n /\ dup THEN "sysA" ELSE NameOf(i),
                           ConfigKeys,
                           IF i = 1 THEN e1 ELSE en[i],
                           IF i = 1 THEN "CH1" ELSE ch[i],
                           IF i = w THEN Metrics \ {m} ELSE Metrics,
                           [b \in bs |-> Bench("A", 0)])]

(* Benches, job names and the number of fans of the first trace vary. *)
JobSet ==
  \E bs \in (SUBSET (1..MaxBenches)) \ {{}} :
    \E jb \in [bs -> JobNames], fn \in 0..MaxFans, two \in BOOLEAN :
      traces =
        IF two
        THEN <<Trace(1, "sysA", ConfigKeys, "", "CH1", Metrics,
                     [b \in bs |-> Bench(jb[b], fn)]),
               Trace(2, "sysB", ConfigKeys, "", "CH2", Metrics,
                     [b \in {1} |-> Bench("Z", MaxFans)])>>
        ELSE <<Trace(1, "sysA", ConfigKeys, "", "CH1", Metrics,
                     [b \in bs |-> Bench(jb[b], fn)])>>

Init ==
  /\ \/ ValidatorSet /\ user_same_enclosure = FALSE
     \/ EnvSet /\ user_same_enclosure \in BOOLEAN
     \/ JobSet /\ user_same_enclosure = FALSE
  /\ no_env \in BOOLEAN
  /\ same_enclosure = user_same_enclosure
  /\ pc = "render_traces"
  /\ log = <<>>
  /\ rendered_graphs = 0
  /\ fatal_msg = NoFatal

-----------------------------------------------------------------------------
(* render_traces, one action per statement. *)
Prepare ==
  /\ pc = "render_traces"
  /\ log' = Append(log, Ev("mkdir", 0, 0, "outdir", None, 0))
  /\ pc' = "graph_environment"
  /\ UNCHANGED <<traces, no_env, same_enclosure, user_same_enclosure,
                 rendered_graphs, fatal_msg>>

GraphEnvironment ==
  /\ pc = "graph_environment"
  /\ LET r == graph_environment(traces, no_env, same_enclosure)
     IN  /\ log' = log \o r.out
         /\ rendered_graphs' = rendered_graphs + r.ret
         /\ same_enclosure' = r.same
  /\ pc' = "compare_traces"
  /\ UNCHANGED <<traces, no_env, user_same_enclosure, fatal_msg>>

CompareTraces ==
  /\ pc = "compare_traces"
  /\ fatal_msg' = compare_traces(traces)
  /\ pc' = IF fatal_msg'.kind = "" THEN "plot_graphs" ELSE "fatal"
  /\ UNCHANGED <<traces, no_env, same_enclosure, user_same_enclosure, log,
                 rendered_graphs>>

PlotGraphs ==
  /\ pc = "plot_graphs"
  /\ LET r == plot_graphs(traces)
     IN  /\ log' = log \o r.out
         /\ rendered_graphs' = rendered_graphs + r.ret
  /\ pc' = "report"
  /\ UNCHANGED <<traces, no_env, same_enclosure, user_same_enclosure, fatal_msg>>

Report ==
  /\ pc = "report"
  /\ log' = Append(log, Ev("print", 0, 0, "graphs can be found", None, rendered_graphs))
  /\ pc' = "done"
  /\ UNCHANGED <<traces, no_env, same_enclosure, user_same_enclosure,
                 rendered_graphs, fatal_msg>>

Next == Prepare \/ GraphEnvironment \/ CompareTraces \/ PlotGraphs \/ Report

Spec == Init /\ [][Next]_vars

-----------------------------------------------------------------------------
(* Reading the log. *)
GraphKinds ==
  {"generic_graph", "yerr_graph", "graph_enclosure", "scaling_graph",
   "individual_graph"}

IsGraph(e) == e.kind \in GraphKinds

IsTraceDir(e) == e.kind = "mkdir" /\ e.trace # 0

NoRendering == \A i \in 1..Len(log) : ~IsGraph(log[i]) /\ ~IsTraceDir(log[i])

Compared == pc \in {"plot_graphs", "report", "done", "fatal"}

Omits(i) == \E k \in traces[1].config : k \notin traces[i].config

Repeats(i) == \E j \in 1..(i - 1) : traces[j].name = traces[i].name

First(S) == CHOOSE i \in S : \A j \in S : i <= j

Omitting == {i \in 1..Len(traces) : Omits(i)}

Repeating == {i \in 1..Len(traces) : Repeats(i)}

-----------------------------------------------------------------------------
(* C1: compare_traces has ended before any graph request is issued or any    *)
(* per-trace subdirectory is created, so a run that fails validation has     *)
(* issued no graph request and created no per-trace subdirectory.            *)
C1_ValidatorBeforeGraphs ==
  pc \in {"graph_environment", "compare_traces", "fatal"} => NoRendering

(* C2, as claimed: whenever some trace omits an entry of the reference       *)
(* configuration, compare_traces aborts with the configuration-mismatch      *)
(* error and the error names a trace that omits an entry.                    *)
C2_AlwaysConfigError ==
  (Compared /\ Omitting # {}) =>
    /\ pc = "fatal"
    /\ fatal_msg.kind = "config"
    /\ \E i \in Omitting : fatal_msg.filename = traces[i].filename

(* C2, amended: whenever some trace omits an entry of the reference          *)
(* configuration, compare_traces aborts; the error is the configuration      *)
(* error naming the first omitting trace when no trace before it repeats an  *)
(* earlier logical name, and otherwise the duplicate-name error naming the   *)
(* first repeating trace.                                                    *)
C2_FirstOffenderConfig ==
  (Compared /\ Omitting # {}) =>
    /\ pc = "fatal"
    /\ LET i == First(Omitting)
           before == {j \in Repeating : j < i}
       IN  IF before = {}
           THEN fatal_msg = fatal("config", traces[i].filename, "")
           ELSE fatal_msg = fatal("duplicate", traces[First(before)].filename,
                                  traces[First(before)].name)

C2_Witness ==
  /\ pc = "fatal"
  /\ fatal_msg.kind = "config"
  /\ Cardinality(Omitting) = 2
  /\ fatal_msg.filename = traces[First(Omitting)].filename

(* C3, as claimed: whenever two traces share a logical name, compare_traces  *)
(* aborts with the duplicate-name error, naming a trace that repeats an      *)
(* earlier name and that name.                                               *)
C3_AlwaysDuplicateError ==
  (Compared /\ Repeating # {}) =>
    /\ pc = "fatal"
    /\ fatal_msg.kind = "duplicate"
    /\ \E i \in Repeating : /\ fatal_msg.filename = traces[i].filename
                            /\ fatal_msg.name = traces[i].name

(* C3, amended: whenever two traces share a logical name, compare_traces     *)
(* aborts; the error is the duplicate-name error naming the first trace that *)
(* repeats an earlier name, and that name, when neither that trace nor any   *)
(* trace before it omits a reference entry, and otherwise the configuration  *)
(* error naming the first omitting trace.                                    *)
C3_FirstOffenderDuplicate ==
  (Compared /\ Repeating # {}) =>
    /\ pc = "fatal"
    /\ LET j == First(Repeating)
           before == {i \in Omitting : i <= j}
       IN  IF before = {}
           THEN fatal_msg = fatal("duplicate", traces[j].filename, traces[j].name)
           ELSE fatal_msg = fatal("config", traces[First(before)].filename, "")

C3_Witness ==
  /\ pc = "fatal"
  /\ fatal_msg.kind = "duplicate"
  /\ Len(traces) = 3
  /\ fatal_msg.filename = traces[3].filename
  /\ fatal_msg.name = traces[1].name
  /\ traces[2].name # traces[1].name

-----------------------------------------------------------------------------
(* Reading the environment stage. *)
EnvRan == pc \notin {"render_traces", "graph_environment"}

PlotRan == pc \in {"report", "done"}

Printed(key) == \E i \in 1..Len(log) : log[i].kind = "print" /\ log[i].key = key

(* graph_environment went past its early return. *)
GateReached == EnvRan /\ ~Printed("disabled by user")

Only(kind) == SelectSeq(log, LAMBDA e : e.kind = kind)

EnclosureBenches ==
  LET s == Only("graph_enclosure") IN [i \in 1..Len(s) |-> s[i].bench]

ScalingJobs ==
  LET s == Only("scaling_graph") IN [i \in 1..Len(s) |-> s[i].key]

IndividualJobs ==
  LET s == Only("individual_graph") IN [i \in 1..Len(s) |-> s[i].key]

Stage3(s) == SelectSeq(s, LAMBDA e : e.kind \in {"scaling_graph", "individual_graph"})

AllMetrics == \A i \in 1..Len(traces) : Metrics \subseteq traces[i].metrics

DistinctChassis ==
  \A i, j \in 1..Len(traces) : i # j => traces[i].chassis # traces[j].chassis

SharedEnclosure ==
  /\ traces[1].enclosure # ""
  /\ \A i \in 1..Len(traces) : traces[i].enclosure = traces[1].enclosure

(* s lists the members of S once each, in increasing order. *)
IsAscending(s, S) ==
  /\ Len(s) = Cardinality(S)
  /\ {s[i] : i \in 1..Len(s)} = S
  /\ \A i, j \in 1..Len(s) : i < j => s[i] < s[j]

Kth(S, k) == CHOOSE x \in S : Cardinality({y \in S : y < x}) = k - 1

(* The job names of the first trace, in sorted bench-name order. *)
JobSeq ==
  [k \in 1..Cardinality(bench_list(traces[1])) |->
     traces[1].benches[Kth(bench_list(traces[1]), k)].job]

FirstIdx(s, x) == First({i \in 1..Len(s) : s[i] = x})

(* j holds every member of s once, ordered by first occurrence in s. *)
IsFirstOccurrenceList(j, s) ==
  /\ \A a, b \in 1..Len(j) : a # b => j[a] # j[b]
  /\ {j[a] : a \in 1..Len(j)} = {s[k] : k \in 1..Len(s)}
  /\ \A a, b \in 1..Len(j) : a < b => FirstIdx(s, j[a]) < FirstIdx(s, j[b])

-----------------------------------------------------------------------------
(* C4: once the auto-detection of graph_environment has run, the             *)
(* same-enclosure preference is true when the reference enclosure serial is  *)
(* non-empty and every trace reports it, whatever the user supplied, and is  *)
(* the user's value when the reference serial is empty or some trace reports *)
(* another serial.                                                           *)
C4_AutoDetection ==
  GateReached =>
    IF SharedEnclosure THEN same_enclosure = TRUE
                       ELSE same_enclosure = user_same_enclosure

C4_Witness ==
  /\ GateReached
  /\ Len(traces) = 2
  /\ SharedEnclosure
  /\ ~user_same_enclosure
  /\ same_enclosure

(* C5: once the enclosure gate has run with the same-enclosure preference    *)
(* active, distinct chassis serials and both metrics on every trace, there   *)
(* is exactly one graph_enclosure request per bench name of the reference    *)
(* trace, in sorted order; with the preference inactive there is none.       *)
C5_EnclosureGate ==
  GateReached =>
    /\ (same_enclosure /\ DistinctChassis /\ AllMetrics) =>
         IsAscending(EnclosureBenches, bench_list(traces[1]))
    /\ ~same_enclosure => EnclosureBenches = <<>>

C5_Witness ==
  /\ GateReached
  /\ Len(traces) = 2
  /\ same_enclosure /\ DistinctChassis /\ AllMetrics
  /\ EnclosureBenches = <<2, 3>>

(* Every bench of every trace got its fan, CPU and thermal dispatch. *)
AllDispatched ==
  \A t \in 1..Len(traces) : \A b \in bench_list(traces[t]) :
    /\ \E i \in 1..Len(log) :
         log[i].kind = "call" /\ log[i].trace = t /\ log[i].bench = b
    /\ Cardinality({i \in 1..Len(log) :
         /\ log[i].kind = "generic_graph" /\ log[i].trace = t /\ log[i].bench = b
         /\ log[i].key \in {"watt_core", "package", "mhz_core"}}) = 9
    /\ \E i \in 1..Len(log) :
         /\ log[i].kind = "generic_graph" /\ log[i].trace = t /\ log[i].bench = b
         /\ log[i].key = "temp"

(* C6: when the enclosure gate runs with the preference active and some      *)
(* trace lacks the chassis or enclosure metric, the run does not abort: no   *)
(* graph_enclosure request, a "disabling" notice, the fan/CPU/thermal        *)
(* dispatch for every trace and bench, and then the job aggregation and the  *)
(* scaling and individual graphs.                                            *)
C6_DegradesAndProceeds ==
  (pc \in {"done", "fatal"} /\ GateReached /\ same_enclosure /\ ~AllMetrics) =>
    /\ EnclosureBenches = <<>>
    /\ Printed("missing")
    /\ AllDispatched
    /\ pc = "done"
    /\ ScalingJobs # <<>> /\ IndividualJobs # <<>>

(* C7: every call of graph_fans on a bench without fans prints "no fans",    *)
(* issues no request and returns 0; on a bench with k >= 1 fans it issues    *)
(* the thermal and power fan-speed requests first, then one error-bar        *)
(* request per fan, and returns 2 + k.                                       *)
C7_FanDispatch ==
  \A i \in 1..Len(log) :
    log[i].kind = "call" =>
      LET t == log[i].trace
          b == log[i].bench
          k == traces[t].benches[b].fans
      IN  IF k = 0
          THEN /\ Len(log) >= i + 2
               /\ log[i + 1] = print("no fans", t, b)
               /\ log[i + 2].kind = "return" /\ log[i + 2].n = 0
          ELSE /\ Len(log) >= i + 3 + k
               /\ \A a \in 1..2 : /\ log[i + a].kind = "generic_graph"
                                  /\ log[i + a].key = "fan"
                                  /\ log[i + a].trace = t /\ log[i + a].bench = b
               /\ {log[i + 1].axis, log[i + 2].axis} = {THERMAL, POWER}
               /\ \A f \in 1..k : /\ log[i + 2 + f].kind = "yerr_graph"
                                  /\ log[i + 2 + f].trace = t
                                  /\ log[i + 2 + f].bench = b
               /\ {log[i + 2 + f].n : f \in 1..k} = 1..k
               /\ log[i + 3 + k].kind = "return" /\ log[i + 3 + k].n = 2 + k

C7_Witness ==
  \E i, j \in 1..Len(log) :
    /\ log[i].kind = "return" /\ log[i].n = 4
    /\ traces[log[i].trace].benches[log[i].bench].fans = 2
    /\ log[j].kind = "return" /\ log[j].n = 0
    /\ traces[log[j].trace].benches[log[j].bench].fans = 0

(* C8: once plot_graphs has run, the jobs of the scaling requests are the   *)
(* job names of the first trace's benches, taken in sorted bench order, each *)
(* once and ordered by first occurrence; the individual requests carry the   *)
(* same list, and every scaling request precedes every individual request.   *)
C8_JobIdentities ==
  PlotRan =>
    /\ IsFirstOccurrenceList(ScalingJobs, JobSeq)
    /\ IndividualJobs = ScalingJobs
    /\ LET s == Stage3(log)
       IN  \A i \in 1..Len(s) :
             s[i].kind = IF i <= Len(ScalingJobs) THEN "scaling_graph"
                                                 ELSE "individual_graph"

C8_Witness ==
  /\ PlotRan
  /\ Len(traces) = 2
  /\ JobSeq = <<"A", "B", "A", "C">>
  /\ ScalingJobs = <<"A", "B", "C">>
  /\ IndividualJobs = <<"A", "B", "C">>

(* C9: with --no-env (args.no_env false) graph_environment issues no graph   *)
(* request, creates no per-trace directory, returns 0 and leaves the         *)
(* same-enclosure preference as supplied; the scaling and individual         *)
(* requests are the ones plot_graphs issues for the Comparison Set whatever  *)
(* the flag, and the reported total is their count.                          *)
C9_NoEnvFrame ==
  /\ PlotRan => Stage3(log) = Stage3(plot_graphs(traces).out)
  /\ (EnvRan /\ no_env = FALSE) =>
       /\ \A i \in 1..Len(log) :
            /\ log[i].kind \notin {"generic_graph", "yerr_graph", "graph_enclosure"}
            /\ ~IsTraceDir(log[i])
       /\ same_enclosure = user_same_enclosure
       /\ rendered_graphs = Len(Stage3(log))
       /\ pc = "done" => log[Len(log)].n = Len(Stage3(log))

C9_Witness ==
  /\ pc = "done"
  /\ no_env = FALSE
  /\ Len(traces) = 2
  /\ SharedEnclosure
  /\ ~same_enclosure
  /\ log[Len(log)].n = 2

====
